---- MODULE Spec2Model ----
(***************************************************************************)
(* Model of cbc-population-distributions:                                  *)
(*   - mass.py: power_law_dip_break_1d and the two joint mass densities;   *)
(*   - population_sampler.py: the rejection sampler draw_true_values;      *)
(*   - population_driver.py: _get_map_sample and the chunked sampling of   *)
(*     sample_max_post.                                                    *)
(*                                                                         *)
(* Floating-point numbers are modelled as exact rationals <<n, d>> in      *)
(* lowest terms with d > 0, extended with the IEEE special values          *)
(* +inf = <<1, 0>>, -inf = <<-1, 0>> and NaN = <<0, 0>> (rounding is not   *)
(* modelled).  Exponents are integers.                                     *)
(***************************************************************************)
EXTENDS Integers, Sequences, FiniteSets, TLC

VARIABLES
    \* draw_true_values (population_sampler.py)
    n_samples,      \* argument n_samples
    vt_model,       \* argument vt_model: "None" or "custom"
    model,          \* argument model: which density evaluator model.prob is
    pc,             \* position in draw_true_values
    data,           \* the batch of the current iteration (rows, then weighted rows)
    total_samples,  \* the cumulative pool (a DataFrame: sequence of rows)
    max_prob,       \* max_prob of the last completed acceptance test
    draws,          \* the np.random.uniform thresholds of the last acceptance test
    keep,           \* the boolean mask keep of the last acceptance test
    error,          \* the exception raised, or "none"
    \* the joint mass densities (mass.py)
    dataset,        \* the event (mass_1, mass_2) the densities are evaluated at
    hyper,          \* the hyperparameters
    prob_independent, \* value returned by matter_matters_primary_secondary_independent
    prob_pairing,   \* value returned by matter_matters_pairing
    \* _get_map_sample (population_driver.py)
    posterior,      \* hyperparams.posterior: a sequence of rows
    map_sample,     \* the row returned by _get_map_sample
    \* sample_max_post (population_driver.py)
    requested,      \* argument n_samples of sample_max_post
    chunk_size,     \* argument chunk_size
    step,           \* position in sample_max_post
    n_chunks,       \* n_chunks
    counter,        \* the loop variable counter
    current_chunk,  \* current_chunk
    events_chunk,   \* the frame draw_true_values returned: its number of rows
    dfs,            \* the list dfs: the number of rows of each frame
    log             \* the calls of draw_true_values and the files written, in order

samplerVars == <<n_samples, vt_model, model, pc, data, total_samples, max_prob,
                 draws, keep, error>>
massVars == <<dataset, hyper, prob_independent, prob_pairing>>
mapVars == <<posterior, map_sample>>
driverVars == <<requested, chunk_size, step, n_chunks, counter, current_chunk,
                events_chunk, dfs, log>>
vars == <<samplerVars, massVars, mapVars, driverVars>>

\* A value not yet computed / a function not yet called.
NotCalled == <<>>

(***************************************************************************)
(* Extended rational arithmetic (the float operations of numpy).           *)
(***************************************************************************)
Abs(x) == IF x < 0 THEN -x ELSE x

Sign(x) == IF x < 0 THEN -1 ELSE IF x > 0 THEN 1 ELSE 0

RECURSIVE GCD(_, _)
GCD(a, b) == IF b = 0 THEN a ELSE GCD(b, a % b)

\* The value n/d in lowest terms; d = 0 gives +inf, -inf or NaN by the sign of n.
Norm(n, d) ==
    IF d = 0 THEN <<Sign(n), 0>>
    ELSE LET g == GCD(Abs(n), Abs(d))
             s == Sign(d)
         IN <<s * (n \div g), s * (d \div g)>>

R(n) == <<n, 1>>
Zero == <<0, 1>>
One == <<1, 1>>
NaN == <<0, 0>>
IsNaN(a) == a = NaN
IsFinite(a) == a[2] # 0

\* a * b (inf * 0 = NaN); the factors are cross-cancelled before multiplying.
RMul(a, b) ==
    IF a[2] = 0 \/ b[2] = 0 THEN Norm(Sign(a[1]) * Sign(b[1]), 0)
    ELSE LET g1 == GCD(Abs(a[1]), b[2])
             g2 == GCD(Abs(b[1]), a[2])
         IN Norm((a[1] \div g1) * (b[1] \div g2), (a[2] \div g2) * (b[2] \div g1))

\* 1 / a (1 / 0 = +inf, 1 / inf = 0).
RInv(a) ==
    IF a = NaN THEN NaN
    ELSE IF a[2] = 0 THEN Zero
    ELSE IF a[1] = 0 THEN <<1, 0>>
    ELSE <<Sign(a[1]) * a[2], Abs(a[1])>>

RDiv(a, b) == RMul(a, RInv(b))

RNeg(a) == <<-a[1], a[2]>>

\* a + b (inf + -inf = NaN).
RAdd(a, b) ==
    IF a[2] = 0 /\ b[2] = 0 THEN (IF a = b THEN a ELSE NaN)
    ELSE IF a[2] = 0 THEN a
    ELSE IF b[2] = 0 THEN b
    ELSE LET g == GCD(a[2], b[2])
         IN Norm(a[1] * (b[2] \div g) + b[1] * (a[2] \div g), (a[2] \div g) * b[2])

RSub(a, b) == RAdd(a, RNeg(b))

\* a ** k for an integer exponent k (x ** 0 = 1, 0 ** -1 = +inf).
RECURSIVE RPow(_, _)
RPow(a, k) ==
    IF k = 0 THEN One
    ELSE IF k < 0 THEN RInv(RPow(a, -k))
    ELSE RMul(a, RPow(a, k - 1))

\* Comparisons; every comparison with NaN is false.  The denominators are
\* cancelled before cross-multiplying.
RLt(a, b) ==
    /\ a # NaN
    /\ b # NaN
    /\ IF a[2] = 0 \/ b[2] = 0
       THEN IF a[2] = 0 /\ b[2] = 0 THEN a[1] < b[1]
            ELSE IF a[2] = 0 THEN a[1] < 0
            ELSE b[1] > 0
       ELSE LET g == GCD(a[2], b[2])
            IN a[1] * (b[2] \div g) < b[1] * (a[2] \div g)

REq(a, b) == a # NaN /\ b # NaN /\ a = b
RLe(a, b) == RLt(a, b) \/ REq(a, b)
RGt(a, b) == RLt(b, a)
RGe(a, b) == RLe(b, a)

\* A boolean array element used as a number (True = 1, False = 0).
BoolNum(b) == IF b THEN One ELSE Zero

(***************************************************************************)
(* mass.py                                                                 *)
(***************************************************************************)

\* gwpopulation.utils.truncnorm is a library function: a normal density
\* truncated to [low, high].  Its values are abstracted to a two-level step:
\* 0 outside [low, high] and further than sigma from mu, 1/sigma within sigma.
truncnorm(xx, mu, sigma, low, high) ==
    IF RGe(xx, low) /\ RLe(xx, high) /\ RLe(RSub(xx, mu), sigma) /\ RLe(RSub(mu, xx), sigma)
    THEN RInv(sigma)
    ELSE Zero

\* plaw = xp.select(condlist, choicelist, default=0.0): the choice of the first
\* condition that holds, the default when none holds.
plaw_segment(mass, h) ==
    IF RLt(mass, h.NSmax) THEN 1
    ELSE IF RGe(mass, h.NSmax) /\ RLt(mass, h.BHmin) THEN 2
    ELSE IF RGe(mass, h.BHmin) THEN 3
    ELSE 0

\* Faulty variant: the third segment rescaled with the exponent difference
\* reversed.
plaw_choice_reversed(i, mass, h) ==
    CASE i = 1 -> RPow(mass, h.alpha_1)
      [] i = 2 -> RMul(RPow(mass, h.alpha_dip), RPow(h.NSmax, h.alpha_1 - h.alpha_dip))
      [] i = 3 -> RMul(RMul(RPow(mass, h.alpha_2), RPow(h.NSmax, h.alpha_1 - h.alpha_dip)),
                       RPow(h.BHmin, h.alpha_2 - h.alpha_dip))
      [] OTHER -> Zero

plaw_choice(i, mass, h) ==
    CASE i = 1 -> RPow(mass, h.alpha_1)
      [] i = 2 -> RMul(RPow(mass, h.alpha_dip), RPow(h.NSmax, h.alpha_1 - h.alpha_dip))
      [] i = 3 -> RMul(RMul(RPow(mass, h.alpha_2), RPow(h.NSmax, h.alpha_1 - h.alpha_dip)),
                       RPow(h.BHmin, h.alpha_dip - h.alpha_2))
      [] OTHER -> Zero

plaw(mass, h) == plaw_choice(plaw_segment(mass, h), mass, h)

highpass_lower(mass, h) == RAdd(One, RPow(RDiv(h.NSmin, mass), h.n0))

notch_lower(mass, h) ==
    RSub(One, RDiv(h.A, RMul(RAdd(One, RPow(RDiv(h.NSmax, mass), h.n1)),
                             RAdd(One, RPow(RDiv(mass, h.BHmin), h.n2)))))

notch_upper(mass, h) ==
    RSub(One, RDiv(h.A2, RMul(RAdd(One, RPow(RDiv(h.UPPERmin, mass), h.n3)),
                              RAdd(One, RPow(RDiv(mass, h.UPPERmax), h.n4)))))

lowpass_upper(mass, h) == RAdd(One, RPow(RDiv(mass, h.BHmax), h.n5))

power_law_dip_break_1d(mass, h) ==
    LET gaussian_peak1 == truncnorm(mass, h.mu1, h.sig1, h.absolute_mmin, h.absolute_mmax)
        gaussian_peak2 == truncnorm(mass, h.mu2, h.sig2, h.absolute_mmin, h.absolute_mmax)
        mixture == RAdd(RAdd(One, RMul(h.mix1, gaussian_peak1)), RMul(h.mix2, gaussian_peak2))
    IN RDiv(RDiv(RMul(RMul(RMul(mixture, plaw(mass, h)), notch_lower(mass, h)),
                      notch_upper(mass, h)),
                 highpass_lower(mass, h)),
            lowpass_upper(mass, h))

\* Faulty variant: the ordering test written mass_1 > mass_2.
primary_secondary_general_strict(ds, p_m1, p_m2) ==
    RMul(RMul(RMul(p_m1, p_m2), BoolNum(RGt(ds.mass_1, ds.mass_2))), R(2))

\* p_m1 * p_m2 * (mass_1 >= mass_2) * 2
primary_secondary_general(ds, p_m1, p_m2) ==
    RMul(RMul(RMul(p_m1, p_m2), BoolNum(RGe(ds.mass_1, ds.mass_2))), R(2))

\* Faulty variant: q * beta_pair written for q ** beta_pair.
primary_secondary_plaw_pairing_times(ds, p_m1, p_m2, beta_pair) ==
    LET q == RDiv(ds.mass_2, ds.mass_1)
    IN RMul(primary_secondary_general(ds, p_m1, p_m2), RMul(q, R(beta_pair)))

primary_secondary_plaw_pairing(ds, p_m1, p_m2, beta_pair) ==
    LET q == RDiv(ds.mass_2, ds.mass_1)
    IN RMul(primary_secondary_general(ds, p_m1, p_m2), RPow(q, beta_pair))

\* Faulty variant: the masked region closed at its boundary.
no_injections_closed(ds) == RGe(ds.mass_1, R(60)) /\ RLe(ds.mass_2, R(3))

\* (dataset["mass_1"] > 60) * (dataset["mass_2"] < 3)
no_injections(ds) == RGt(ds.mass_1, R(60)) /\ RLt(ds.mass_2, R(3))

matter_matters_primary_secondary_independent(ds, h) ==
    LET p_m1 == power_law_dip_break_1d(ds.mass_1, h)
        p_m2 == power_law_dip_break_1d(ds.mass_2, h)
        prob == primary_secondary_general(ds, p_m1, p_m2)
    IN IF no_injections(ds) THEN Zero ELSE prob

\* Faulty variant: the break itself given the first exponent.
matter_matters_pairing_le(ds, h) ==
    LET p_m1 == power_law_dip_break_1d(ds.mass_1, h)
        p_m2 == power_law_dip_break_1d(ds.mass_2, h)
        beta_pair == IF RLe(ds.mass_2, h.mbreak) THEN h.beta_pair_1 ELSE h.beta_pair_2
        prob == primary_secondary_plaw_pairing(ds, p_m1, p_m2, beta_pair)
    IN IF no_injections(ds) THEN Zero ELSE prob

matter_matters_pairing(ds, h) ==
    LET p_m1 == power_law_dip_break_1d(ds.mass_1, h)
        p_m2 == power_law_dip_break_1d(ds.mass_2, h)
        beta_pair == IF RLt(ds.mass_2, h.mbreak) THEN h.beta_pair_1 ELSE h.beta_pair_2
        prob == primary_secondary_plaw_pairing(ds, p_m1, p_m2, beta_pair)
    IN IF no_injections(ds) THEN Zero ELSE prob

(***************************************************************************)
(* Evaluation of the joint mass densities on a grid of events and          *)
(* hyperparameter sets.                                                    *)
(***************************************************************************)

\* Hyperparameters with every filter flat (sharpness 0), no peaks and a single
\* power law; the sets below change some of them.
BaseHyper ==
    [A |-> Zero, A2 |-> Zero,
     NSmin |-> R(1), NSmax |-> R(3), BHmin |-> R(30), BHmax |-> R(60),
     UPPERmin |-> R(45), UPPERmax |-> R(90),
     n0 |-> 0, n1 |-> 0, n2 |-> 0, n3 |-> 0, n4 |-> 0, n5 |-> 0,
     alpha_1 |-> 0, alpha_2 |-> 0, alpha_dip |-> 0,
     mu1 |-> R(30), sig1 |-> R(5), mix1 |-> Zero,
     mu2 |-> R(10), sig2 |-> R(2), mix2 |-> Zero,
     absolute_mmin |-> <<1, 2>>, absolute_mmax |-> R(350),
     mbreak |-> R(30), beta_pair_1 |-> 1, beta_pair_2 |-> 2]

\* Broken power law, the first peak and the high-pass filter.
HyperPowerLaw ==
    [BaseHyper EXCEPT !.alpha_1 = -1, !.alpha_dip = 1, !.alpha_2 = -2,
                      !.mix1 = R(5), !.n0 = 1]

\* The lower notch and the low-pass filter; pairing break at 3.
HyperNotch ==
    [BaseHyper EXCEPT !.A = <<1, 2>>, !.n1 = 1, !.n2 = 1, !.n5 = 1,
                      !.alpha_1 = 1, !.alpha_dip = 0, !.alpha_2 = -1,
                      !.mbreak = R(3), !.beta_pair_1 = -1, !.beta_pair_2 = 0]

\* The upper notch and the second peak; pairing break at 45.
HyperUpper ==
    [BaseHyper EXCEPT !.A2 = <<1, 2>>, !.n3 = 1, !.n4 = 1,
                      !.mix2 = R(2), !.mu2 = R(3), !.sig2 = R(1),
                      !.alpha_1 = -1, !.alpha_dip = -1, !.alpha_2 = -1,
                      !.mbreak = R(45), !.beta_pair_1 = 1, !.beta_pair_2 = -1]

HyperSets == {HyperPowerLaw, HyperNotch, HyperUpper}

\* Positive masses: both sides of and on the breaks 3, 30, 45 and 60.
MassGrid == {R(2), R(3), R(30), R(45), R(60), R(90)}

MassIdle ==
    /\ dataset = NotCalled
    /\ hyper = NotCalled
    /\ prob_independent = NotCalled
    /\ prob_pairing = NotCalled

MassInit ==
    /\ dataset \in [mass_1 : MassGrid, mass_2 : MassGrid]
    /\ hyper \in HyperSets
    /\ prob_independent = NotCalled
    /\ prob_pairing = NotCalled

CallIndependent ==
    /\ dataset # NotCalled
    /\ prob_independent = NotCalled
    /\ prob_independent' = matter_matters_primary_secondary_independent(dataset, hyper)
    /\ UNCHANGED <<dataset, hyper, prob_pairing, samplerVars, mapVars, driverVars>>

CallPairing ==
    /\ dataset # NotCalled
    /\ prob_pairing = NotCalled
    /\ prob_pairing' = matter_matters_pairing(dataset, hyper)
    /\ UNCHANGED <<dataset, hyper, prob_independent, samplerVars, mapVars, driverVars>>

SamplerIdle ==
    /\ n_samples = 0
    /\ vt_model = "None"
    /\ model = "none"
    /\ pc = "idle"
    /\ data = <<>>
    /\ total_samples = <<>>
    /\ max_prob = NotCalled
    /\ draws = <<>>
    /\ keep = <<>>
    /\ error = "none"

MapIdle ==
    /\ posterior = NotCalled
    /\ map_sample = NotCalled

DriverIdle ==
    /\ requested = 0
    /\ chunk_size = 0
    /\ step = "idle"
    /\ n_chunks = 0
    /\ counter = 0
    /\ current_chunk = 0
    /\ events_chunk = 0
    /\ dfs = <<>>
    /\ log = <<>>

MassNext == CallIndependent \/ CallPairing

InitMass == MassInit /\ SamplerIdle /\ MapIdle /\ DriverIdle

SpecMass == InitMass /\ [][MassNext]_vars

(***************************************************************************)
(* population_sampler.py: draw_true_values                                 *)
(*                                                                         *)
(* A row carries the columns mass_1, mass_ratio, mass_2 and prob.  The     *)
(* spin and redshift columns are drawn independently of these, are only    *)
(* handed to model.prob and are not modelled; their density factors are 1. *)
(***************************************************************************)

\* The over-sampling multiplier of n_per_iteration = n_samples * 10000,
\* scaled down: a batch has n_samples * OverSample rows.
OverSample == 2

\* The model draws a new batch only while the pool with that batch has at most
\* MaxPool rows.
MaxPool == 6

\* BOUNDS (the mass columns)
BOUNDS == [mass_1 |-> <<R(1), R(100)>>, mass_ratio |-> <<Zero, One>>]

\* The values the model lets a draw of each column take.
DrawGrid ==
    [mass_1 |-> {R(90), R(100)},
     mass_ratio |-> {Zero, <<1, 3>>, <<2, 3>>, One}]

\* xp.random.uniform(low, high) = low + (high - low) * u with u in [0, 1): a value
\* of the half-open interval [low, high) (of (high, low] when high < low, low
\* itself when high = low).
uniform(low, high, grid) ==
    IF RLt(low, high) THEN {x \in grid : RGe(x, low) /\ RLt(x, high)}
    ELSE IF RLt(high, low) THEN {x \in grid : RGt(x, high) /\ RLe(x, low)}
    ELSE {RAdd(low, RSub(high, low))}

\* One row of _draw_from_prior: each column drawn independently within its bounds.
draw_from_prior ==
    [mass_1 : uniform(BOUNDS.mass_1[1], BOUNDS.mass_1[2], DrawGrid.mass_1),
     mass_ratio : uniform(BOUNDS.mass_ratio[1], BOUNDS.mass_ratio[2], DrawGrid.mass_ratio)]

\* The arguments draw_true_values is called with.
NSamplesInputs == {-1, 0, 1, 2}
VtModelInputs == {"None", "custom"}
ModelInputs == {"independent", "pairing", "flat", "nonpositive"}

\* The hyperparameters model.parameters holds (one MAP sample per run).
ModelParameters == HyperPowerLaw

\* model.prob(row): the population density of one row.  "independent" and
\* "pairing" are the Model built by sample_max_post; "flat" is a density that is
\* positive everywhere; "nonpositive" is a density that is nowhere positive.
model_prob(m, row) ==
    CASE m = "independent" ->
            matter_matters_primary_secondary_independent(row, ModelParameters)
      [] m = "pairing" -> matter_matters_pairing(row, ModelParameters)
      [] m = "flat" -> One
      [] OTHER -> RNeg(row.mass_ratio)

n_per_iteration == n_samples * OverSample

\* The default vt_model: def vt_model(x): return 1
default_vt_model(row) == One

\* Faulty variant: the density alone, without the factor mass_1.
weight_density_only(m, row) == RMul(model_prob(m, row), default_vt_model(row))

\* prob = model.prob(data) * data["mass_1"]; prob *= vt_model(data)
weight(m, row) == RMul(RMul(model_prob(m, row), row.mass_1), default_vt_model(row))

\* Series.max(): the largest value, NaN skipped; NaN when there is none.
RECURSIVE SeriesMax(_)
SeriesMax(rows) ==
    IF rows = <<>> THEN NaN
    ELSE LET rest == SeriesMax(Tail(rows))
             x == Head(rows).prob
         IN IF IsNaN(x) THEN rest
            ELSE IF IsNaN(rest) \/ RGt(x, rest) THEN x
            ELSE rest

\* Faulty variant: the floor test written >=.
above_floor_ge(row, mx, n) == RGe(row.prob, RDiv(mx, R(n)))

\* Faulty variant: the floor written max_prob, without the division.
above_floor_max(row, mx, n) == RGt(row.prob, mx)

\* total_samples[total_samples["prob"] > max_prob / n_per_iteration]
above_floor(row, mx, n) == RGt(row.prob, RDiv(mx, R(n)))

prune(rows, mx, n) == SelectSeq(rows, LAMBDA row : above_floor(row, mx, n))

\* The values the model lets the threshold of a row take: 0, the row's own
\* weight and the midpoint of that weight and max_prob; of these,
\* np.random.uniform(0, max_prob) draws the ones in [0, max_prob).
ThresholdGrid(row, mx) == {Zero, row.prob, RDiv(RAdd(row.prob, mx), R(2))}

\* np.random.uniform(0, max_prob, len(total_samples)): one threshold per row.
RECURSIVE ThresholdDraws(_, _)
ThresholdDraws(rows, mx) ==
    IF rows = <<>> THEN {<<>>}
    ELSE {<<u>> \o rest : u \in uniform(Zero, mx, ThresholdGrid(Head(rows), mx)),
                          rest \in ThresholdDraws(Tail(rows), mx)}

\* Faulty variant: the acceptance test written >.
passes_strict(row, u) == RGt(row.prob, u)

\* total_samples["prob"].values >= np.random.uniform(0, max_prob, len(total_samples))
passes(row, u) == RGe(row.prob, u)

\* The rows of a frame selected by a boolean mask, in order.
RECURSIVE Masked(_, _)
Masked(rows, mask) ==
    IF rows = <<>> THEN <<>>
    ELSE IF Head(mask) THEN <<Head(rows)>> \o Masked(Tail(rows), Tail(mask))
    ELSE Masked(Tail(rows), Tail(mask))

\* keep.sum()
MaskSum(mask) == Cardinality({i \in DOMAIN mask : mask[i]})

\* Faulty variant: the passing rows returned without truncation.
iloc_head_all(rows, n) == rows

\* Faulty variant: the last n rows instead of the first.
iloc_tail(rows, n) ==
    SubSeq(rows, IF n < Len(rows) THEN Len(rows) - n + 1 ELSE 1, Len(rows))

\* frame.iloc[:n]
iloc_head(rows, n) == SubSeq(rows, 1, IF n < Len(rows) THEN n ELSE Len(rows))

\* Faulty variant: the loop left as soon as one row passes.
enough_one(mask, n) == MaskSum(mask) >= 1

\* keep.sum() >= n_samples
enough(mask, n) == MaskSum(mask) >= n

SamplerInit ==
    /\ n_samples \in NSamplesInputs
    /\ vt_model \in VtModelInputs
    /\ model \in ModelInputs
    /\ pc = "init"
    /\ data = <<>>
    /\ total_samples = <<>>
    /\ max_prob = NotCalled
    /\ draws = <<>>
    /\ keep = <<>>
    /\ error = "none"

\* Faulty variant: the check written n_samples < 0.
invalid_n_samples_negative(n) == n < 0

\* Faulty variant: a custom vt_model silently ignored.
custom_vt_model_ignored(vt) == FALSE

\* Lines 59-70: the argument checks, then the empty pool.
invalid_n_samples(n) == n <= 0

custom_vt_model(vt) == vt # "None"

Validate ==
    /\ pc = "init"
    /\ IF invalid_n_samples(n_samples)
       THEN pc' = "raised" /\ error' = "ValueError"
       ELSE IF custom_vt_model(vt_model)
       THEN pc' = "raised" /\ error' = "NotImplementedError"
       ELSE pc' = "batch_draw" /\ error' = error
    /\ UNCHANGED <<n_samples, vt_model, model, data, total_samples, max_prob,
                   draws, keep, massVars, mapVars, driverVars>>

\* Lines 73-74: a batch of n_per_iteration rows, and mass_2 derived.
derive_mass_2(row) ==
    [mass_1 |-> row.mass_1, mass_ratio |-> row.mass_ratio,
     mass_2 |-> RMul(row.mass_1, row.mass_ratio)]

BatchDraw ==
    /\ pc = "batch_draw"
    /\ Len(total_samples) + n_per_iteration <= MaxPool
    /\ \E batch \in [1..n_per_iteration -> draw_from_prior] :
          data' = [i \in 1..n_per_iteration |-> derive_mass_2(batch[i])]
    /\ pc' = "weight"
    /\ UNCHANGED <<n_samples, vt_model, model, total_samples, max_prob, draws,
                   keep, error, massVars, mapVars, driverVars>>

\* Lines 78-82: the weight of every row of the batch.  The weights of the
\* rows a batch can hold are computed once (WeightTable) and looked up.
WeightTable ==
    [m \in ModelInputs |->
        [row \in {derive_mass_2(r) : r \in draw_from_prior} |-> weight(m, row)]]

weighted(m, row) ==
    [mass_1 |-> row.mass_1, mass_ratio |-> row.mass_ratio, mass_2 |-> row.mass_2,
     prob |-> WeightTable[m][row]]

Weight ==
    /\ pc = "weight"
    /\ data' = [i \in DOMAIN data |-> weighted(model, data[i])]
    /\ pc' = "accept_test"
    /\ UNCHANGED <<n_samples, vt_model, model, total_samples, max_prob, draws,
                   keep, error, massVars, mapVars, driverVars>>

\* Lines 83-96: the batch joins the pool, the pool is pruned, every row of it
\* is tested against a fresh threshold, and the loop ends with the first
\* n_samples passing rows or goes on with the pruned pool.
AcceptTest ==
    /\ pc = "accept_test"
    /\ \E pool \in {total_samples \o data} :
       \E mx \in {SeriesMax(pool)} :
       \E pruned \in {prune(pool, mx, n_per_iteration)} :
       \E d \in ThresholdDraws(pruned, mx) :
       \E mask \in {[i \in DOMAIN pruned |-> passes(pruned[i], d[i])]} :
          /\ max_prob' = mx
          /\ draws' = d
          /\ keep' = mask
          /\ IF enough(mask, n_samples)
             THEN /\ total_samples' = iloc_head(Masked(pruned, mask), n_samples)
                  /\ pc' = "done"
             ELSE /\ total_samples' = pruned
                  /\ pc' = "continue"
    /\ UNCHANGED <<n_samples, vt_model, model, data, error, massVars, mapVars, driverVars>>

\* Lines 98-112: the efficiency diagnostic, then the next iteration.  data,
\* keep and the thresholds are rebound by the next iteration before they are
\* read: the model clears them here.
Continue ==
    /\ pc = "continue"
    /\ pc' = "batch_draw"
    /\ data' = <<>>
    /\ draws' = <<>>
    /\ keep' = <<>>
    /\ UNCHANGED <<n_samples, vt_model, model, total_samples, max_prob,
                   error, massVars, mapVars, driverVars>>

\* Lines 114-115: the prob column dropped, the table returned.  The locals
\* data, max_prob, keep and the thresholds end with the call.
drop_prob(row) ==
    [mass_1 |-> row.mass_1, mass_ratio |-> row.mass_ratio, mass_2 |-> row.mass_2]

Return ==
    /\ pc = "done"
    /\ total_samples' = [i \in DOMAIN total_samples |-> drop_prob(total_samples[i])]
    /\ pc' = "returned"
    /\ data' = <<>>
    /\ max_prob' = NotCalled
    /\ draws' = <<>>
    /\ keep' = <<>>
    /\ UNCHANGED <<n_samples, vt_model, model, error, massVars, mapVars, driverVars>>

Next == Validate \/ BatchDraw \/ Weight \/ AcceptTest \/ Continue \/ Return

Init == SamplerInit /\ MassIdle /\ MapIdle /\ DriverIdle

Spec == Init /\ [][Next]_vars

(***************************************************************************)
(* The sampler under fair scheduling and fair draws.                       *)
(***************************************************************************)

\* The rows a batch can hold.
CandidateRows == {derive_mass_2(r) : r \in draw_from_prior}

\* The rows of positive weight that no other row outweighs.
BestRows(m) ==
    {row \in CandidateRows :
        /\ RGt(WeightTable[m][row], Zero)
        /\ \A other \in CandidateRows : ~RGt(WeightTable[m][other], WeightTable[m][row])}

\* A step of BatchDraw whose batch holds rows of the largest weight only.
BatchDrawBest ==
    /\ pc = "batch_draw"
    /\ Len(total_samples) + n_per_iteration <= MaxPool
    /\ data' \in [1..n_per_iteration -> BestRows(model)]
    /\ pc' = "weight"
    /\ UNCHANGED <<n_samples, vt_model, model, total_samples, max_prob, draws,
                   keep, error, massVars, mapVars, driverVars>>

\* The acceptance test is always possible where the loop stands at it, and it
\* leaves that position: weak fairness of AcceptTest says that the loop does
\* not stand there forever.
AcceptTestFair == []<>(pc # "accept_test")

\* The loop is sequential code: each step that can be taken is taken.  The draws
\* are random: a batch that can be drawn again and again is eventually drawn.
Fairness ==
    /\ WF_vars(Validate)
    /\ WF_vars(Weight)
    /\ WF_vars(Continue)
    /\ WF_vars(Return)
    /\ AcceptTestFair
    /\ SF_vars(BatchDrawBest)

SpecLive == Init /\ [][Next]_vars /\ Fairness

(***************************************************************************)
(* Claims about draw_true_values.                                          *)
(***************************************************************************)
ValidArguments == n_samples > 0 /\ vt_model = "None"

\* The pool has outgrown the model: no further batch is drawn.
PoolCapReached ==
    pc = "batch_draw" /\ Len(total_samples) + n_per_iteration > MaxPool

\* C1: when draw_true_values returns, the table has exactly n_samples rows.
C1_ExactlyNRows ==
    pc \in {"done", "returned"} => Len(total_samples) = n_samples

\* The loop left with a pool larger than one batch and more than n_samples
\* passing rows.
C1_Witness ==
    /\ pc = "done"
    /\ Len(keep) > n_per_iteration
    /\ MaskSum(keep) > n_samples

\* C2: with n_samples <= 0 the call fails with ValueError before any batch is
\* drawn: no batch, no weight, no pool.
C2_InvalidNSamples ==
    n_samples <= 0 =>
        /\ pc \in {"init", "raised"}
        /\ pc = "raised" => error = "ValueError"
        /\ pc = "init" => error = "none"
        /\ data = <<>>
        /\ total_samples = <<>>
        /\ max_prob = NotCalled

\* The failure with n_samples = 0, also when a custom vt_model is given.
C2_Witness ==
    /\ pc = "raised"
    /\ n_samples = 0
    /\ vt_model = "custom"
    /\ error = "ValueError"

C4_ReturnedRowsInRange ==
    pc = "returned" =>
        \A i \in DOMAIN total_samples :
            /\ RGt(total_samples[i].mass_ratio, Zero)
            /\ RLe(total_samples[i].mass_ratio, One)
            /\ total_samples[i].mass_2
                  = RMul(total_samples[i].mass_1, total_samples[i].mass_ratio)

\* C5: with valid arguments and a density that is positive for some row that can
\* be drawn, the call eventually returns (or the pool outgrows the model).
C5_EventuallyReturns ==
    (ValidArguments /\ BestRows(model) # {}) ~> (pc = "returned" \/ PoolCapReached)

\* The loop left with valid arguments after an iteration in which too few rows
\* passed.
C5_Witness ==
    /\ pc = "done"
    /\ ValidArguments
    /\ BestRows(model) # {}
    /\ Len(keep) > n_per_iteration

\* C6: with a density that is nowhere positive the call neither returns nor
\* raises: no row passes, the pool stays empty and the loop goes on.
C6_NonPositiveDensityLoops ==
    (ValidArguments /\ model = "nonpositive") =>
        /\ pc \in {"init", "batch_draw", "weight", "accept_test", "continue"}
        /\ error = "none"
        /\ MaskSum(keep) = 0
        /\ total_samples = <<>>

\* A second iteration about to start after a batch whose largest weight was 0.
C6_Witness ==
    /\ ValidArguments
    /\ model = "nonpositive"
    /\ pc = "batch_draw"
    /\ max_prob = Zero

(***************************************************************************)
(* Claims about the joint mass densities (checked under SpecMass).         *)
(***************************************************************************)
IndependentCalled == prob_independent # NotCalled
PairingCalled == prob_pairing # NotCalled

\* The product form 2 * p(mass_1) * p(mass_2) of the event.
ProductForm ==
    RMul(R(2), RMul(power_law_dip_break_1d(dataset.mass_1, hyper),
                    power_law_dip_break_1d(dataset.mass_2, hyper)))

\* The pairing exponent of the event.
BetaOfEvent ==
    IF RLt(dataset.mass_2, hyper.mbreak) THEN hyper.beta_pair_1 ELSE hyper.beta_pair_2

\* The product form times (mass_2 / mass_1) ** beta.
PairingForm == RMul(ProductForm, RPow(RDiv(dataset.mass_2, dataset.mass_1), BetaOfEvent))

InMaskedRegion == RGt(dataset.mass_1, R(60)) /\ RLt(dataset.mass_2, R(3))
OnMaskBoundary == dataset.mass_1 = R(60) \/ dataset.mass_2 = R(3)

\* C7: matter_matters_primary_secondary_independent returns exactly 0 when
\* mass_1 < mass_2, and 2 * p(mass_1) * p(mass_2) when mass_1 >= mass_2 outside
\* the masked region; mass_1 = mass_2 is in the second branch.
C7_OrderingInvariant ==
    IndependentCalled =>
        /\ RLt(dataset.mass_1, dataset.mass_2) => prob_independent = Zero
        /\ (RGe(dataset.mass_1, dataset.mass_2) /\ ~InMaskedRegion)
              => prob_independent = ProductForm

\* An equal-mass event evaluated to a non-zero density.
C7_Witness ==
    /\ IndependentCalled
    /\ dataset.mass_1 = dataset.mass_2
    /\ prob_independent # Zero

\* C8: both joint densities are exactly 0 when mass_1 > 60 and mass_2 < 3, and
\* an event on the boundary (mass_1 = 60 or mass_2 = 3) keeps its unmasked value.
C8_MaskingInvariant ==
    /\ IndependentCalled =>
          /\ InMaskedRegion => prob_independent = Zero
          /\ (OnMaskBoundary /\ RGe(dataset.mass_1, dataset.mass_2))
                => prob_independent = ProductForm
    /\ PairingCalled =>
          /\ InMaskedRegion => prob_pairing = Zero
          /\ (OnMaskBoundary /\ RGe(dataset.mass_1, dataset.mass_2))
                => prob_pairing = PairingForm

\* A masked event whose unmasked densities are not 0, both variants evaluated.
C8_Witness ==
    /\ IndependentCalled
    /\ PairingCalled
    /\ InMaskedRegion
    /\ ProductForm # Zero
    /\ PairingForm # Zero

\* C9: at mass_1 = mass_2 matter_matters_pairing returns the value of
\* matter_matters_primary_secondary_independent.
C9_PairingEqualsIndependentAtRatioOne ==
    (IndependentCalled /\ PairingCalled /\ dataset.mass_1 = dataset.mass_2)
        => prob_pairing = prob_independent

\* An equal-mass event with a non-zero pairing exponent and a non-zero density.
C9_Witness ==
    /\ IndependentCalled
    /\ PairingCalled
    /\ dataset.mass_1 = dataset.mass_2
    /\ BetaOfEvent \notin {0, 1}
    /\ prob_pairing # Zero

(***************************************************************************)
(* population_driver.py: _get_map_sample                                   *)
(*                                                                         *)
(* hyperparams.posterior is a DataFrame: its column names and its rows.    *)
(* Every row carries log_likelihood, and log_prior when the column exists. *)
(* The log-likelihoods and log-priors of posterior samples are finite;     *)
(* they are modelled as small integers, for which the float sum is exact.  *)
(***************************************************************************)
\* The largest number of rows of a posterior.
MaxRows == 3

LogLikelihoodValues == {0, 1, 2}
LogPriorValues == {-1, 0}

ColumnSets == {{"log_likelihood"}, {"log_likelihood", "log_prior"}}

RowsOf(columns) ==
    IF "log_prior" \in columns
    THEN [log_likelihood : LogLikelihoodValues, log_prior : LogPriorValues]
    ELSE [log_likelihood : LogLikelihoodValues]

Posteriors ==
    UNION {UNION {{[columns |-> c, rows |-> rs] : rs \in [1..n -> RowsOf(c)]}
                  : n \in 0..MaxRows}
           : c \in ColumnSets}

\* post[name]: a column as a Series.
column(post, name) == [i \in DOMAIN post.rows |-> post.rows[i][name]]

\* Series.nunique(): the number of distinct values.
nunique(series) == Cardinality({series[i] : i \in DOMAIN series})

\* np.argmax: the first position of the largest value.
argmax(series) ==
    CHOOSE i \in DOMAIN series :
        /\ \A j \in DOMAIN series : series[j] <= series[i]
        /\ \A j \in DOMAIN series : j < i => series[j] < series[i]

\* post.iloc[i], positions counted from 1 here.
iloc(post, i) == post.rows[i]

\* A score that leaves the prior out.
score_likelihood_only(post) == column(post, "log_likelihood")

\* Line 46: score = post.log_likelihood + post.log_prior.
score(post) ==
    [i \in DOMAIN post.rows |->
        post.rows[i].log_likelihood + post.rows[i].log_prior]

\* Lines 45-50, for a posterior with at least one row.
get_map_sample(post) ==
    IF "log_prior" \in post.columns /\ nunique(column(post, "log_prior")) > 1
    THEN iloc(post, argmax(score(post)))
    ELSE iloc(post, argmax(column(post, "log_likelihood")))

ValueErrorRaised == [raised |-> "ValueError"]

MapInit ==
    /\ posterior \in Posteriors
    /\ map_sample = NotCalled

\* _get_map_sample(hyperparams): works on post, a copy of the posterior
\* (line 44).  np.argmax of an empty column raises ValueError.
GetMapSample ==
    /\ map_sample = NotCalled
    /\ \E post \in {posterior} :
          map_sample' = IF post.rows = <<>>
                        THEN ValueErrorRaised
                        ELSE get_map_sample(post)
    /\ posterior' = posterior
    /\ UNCHANGED <<samplerVars, massVars, driverVars>>

MapNext == GetMapSample

InitMap == MapInit /\ SamplerIdle /\ MassIdle /\ DriverIdle

SpecMap == InitMap /\ [][MapNext]_vars

(***************************************************************************)
(* Claim about _get_map_sample.                                            *)
(***************************************************************************)
\* The prior is informative: a log_prior column with more than one distinct
\* value.
InformativePrior(post) ==
    /\ "log_prior" \in post.columns
    /\ \E i, j \in DOMAIN post.rows : post.rows[i].log_prior # post.rows[j].log_prior

\* Row number i maximizes log_likelihood + log_prior.
MaximizesPosterior(post, i) ==
    \A j \in DOMAIN post.rows :
        post.rows[j].log_likelihood + post.rows[j].log_prior
            <= post.rows[i].log_likelihood + post.rows[i].log_prior

\* Row number i maximizes log_likelihood.
MaximizesLikelihood(post, i) ==
    \A j \in DOMAIN post.rows :
        post.rows[j].log_likelihood <= post.rows[i].log_likelihood

\* C10: a call of _get_map_sample on a posterior with rows returns one of the
\* posterior's rows, one that maximizes log_likelihood + log_prior when the
\* prior is informative and one that maximizes log_likelihood otherwise; the
\* call leaves the posterior unchanged.
C10_MapSample ==
    [][(GetMapSample /\ posterior.rows # <<>>) =>
          /\ posterior' = posterior
          /\ \E i \in DOMAIN posterior.rows :
                /\ map_sample' = posterior.rows[i]
                /\ IF InformativePrior(posterior)
                   THEN MaximizesPosterior(posterior, i)
                   ELSE MaximizesLikelihood(posterior, i)]_vars

\* A call with an informative prior whose MAP row is not an ML row.
C10_Witness ==
    /\ map_sample # NotCalled
    /\ posterior # NotCalled
    /\ posterior.rows # <<>>
    /\ InformativePrior(posterior)
    /\ map_sample \in {posterior.rows[i] : i \in DOMAIN posterior.rows}
    /\ \E j \in DOMAIN posterior.rows :
          posterior.rows[j].log_likelihood > map_sample.log_likelihood

(***************************************************************************)
(* Further claims about draw_true_values.                                  *)
(***************************************************************************)
\* A step of the acceptance test of a second or later iteration: max_prob is
\* the maximum of the iteration before, data the weighted batch of this one.
LaterAcceptTest ==
    /\ pc = "accept_test"
    /\ pc' # "accept_test"
    /\ max_prob # NotCalled

\* The larger of two weights.
RMax(a, b) == IF RGt(b, a) THEN b ELSE a

\* C11: the maximum weight used in an iteration is at least the maximum used in
\* the iteration before, and is the larger of that maximum and the largest
\* weight of the new batch.
C11_RunningMaxMonotone ==
    [][LaterAcceptTest =>
          /\ RGe(max_prob', max_prob)
          /\ max_prob' = RMax(max_prob, SeriesMax(data))]_vars

\* A step of the acceptance test: total_samples \o data is the pool before the
\* prune, max_prob' the maximum weight of it.
AcceptStep == pc = "accept_test" /\ pc' # "accept_test"

\* The floor of the prune: max_prob / n_per_iteration.
Floor(mx) == RDiv(mx, R(n_per_iteration))

\* The rows of the pool with a weight above the floor, in order.
StrictlyAboveFloor(pool, mx) == SelectSeq(pool, LAMBDA row : RGt(row.prob, Floor(mx)))

\* The rows of the pool with a weight at or above the floor, in order.
AtOrAboveFloor(pool, mx) == SelectSeq(pool, LAMBDA row : RGe(row.prob, Floor(mx)))

\* C12, as the code has it: the prune keeps exactly the rows whose weight is
\* strictly above max_prob / n_per_iteration; a row whose weight equals the
\* floor is discarded with the rows below it.  Every kept row is tested, and
\* the kept rows are the pool of the next iteration.
C12_PruneKeepsStrictlyAbove ==
    [][AcceptStep =>
          /\ Len(keep') = Len(StrictlyAboveFloor(total_samples \o data, max_prob'))
          /\ pc' = "continue" =>
                total_samples' = StrictlyAboveFloor(total_samples \o data, max_prob')]_vars

\* C12, as the claim has it: after the prune every row whose weight is at or
\* above the floor is still in the pool, and no row below the floor is.
C12_PruneKeepsAtOrAbove ==
    [][(AcceptStep /\ pc' = "continue") =>
          total_samples' = AtOrAboveFloor(total_samples \o data, max_prob')]_vars

\* An iteration in which a row whose weight equals the floor was discarded.
C12_Witness ==
    /\ pc = "continue"
    /\ \E i \in DOMAIN data :
          /\ REq(data[i].prob, Floor(max_prob))
          /\ \A j \in DOMAIN total_samples : total_samples[j] # data[i]

\* The pruned pool of the acceptance step being taken.
PrunedPool == StrictlyAboveFloor(total_samples \o data, max_prob')

\* The number of passing rows among the first i rows of a mask.
rank(mask, i) == Cardinality({j \in 1..i : mask[j]})

\* C13, as the code has it: every acceptance step tests every row of the
\* pruned cumulative pool, the rows of earlier batches and of the new one
\* alike, each against a threshold of its own drawn in [0, max_prob]; a row
\* passes exactly when its weight is at least its threshold, whatever the
\* earlier outcome of that row, and the pool that goes on holds the failing
\* rows as well.
C13_AcceptanceRetest ==
    [][AcceptStep =>
          \A pool \in {PrunedPool} :
             /\ DOMAIN draws' = DOMAIN pool
             /\ keep' = [i \in DOMAIN pool |-> RGe(pool[i].prob, draws'[i])]
             /\ \A i \in DOMAIN pool :
                   RGe(draws'[i], Zero) /\ RLe(draws'[i], max_prob')
             /\ pc' = "continue" => total_samples' = pool]_vars

\* C13, as the claim has it: a row passes exactly when its weight exceeds its
\* threshold.
C13_PassesWhenExceeds ==
    [][AcceptStep =>
          \A pool \in {PrunedPool} :
             keep' = [i \in DOMAIN pool |-> RGt(pool[i].prob, draws'[i])]]_vars

\* A returned row passed on a threshold equal to its own weight.
C13_Witness ==
    /\ pc = "done"
    /\ \E i \in DOMAIN keep :
          /\ keep[i]
          /\ rank(keep, i) <= Len(total_samples)
          /\ ~REq(draws[i], Zero)
          /\ REq(draws[i], total_samples[rank(keep, i)].prob)

\* The moves of the control of draw_true_values: validation, then the loop
\* body in order, then the return.
PhaseMoves ==
    {<<"init", "raised">>, <<"init", "batch_draw">>,
     <<"batch_draw", "weight">>, <<"weight", "accept_test">>,
     <<"accept_test", "continue">>, <<"accept_test", "done">>,
     <<"continue", "batch_draw">>, <<"done", "returned">>}

\* C14: after validation the control moves only along init -> batch draw ->
\* weight -> acceptance test -> (continue -> batch draw | done); every batch
\* has the same size n_samples * OverSample and is drawn once per iteration;
\* the loop is left only from an acceptance test in which at least n_samples
\* rows passed, and nothing follows the return; the only other exit is a
\* failed validation, before any batch is drawn.
C14_PhaseOrder ==
    [][/\ <<pc, pc'>> \in PhaseMoves
       /\ pc' = "raised" => (~ValidArguments /\ data = <<>> /\ total_samples = <<>>)
       /\ pc' = "batch_draw" => ValidArguments
       /\ pc' = "weight" => Len(data') = n_samples * OverSample
       /\ pc # "batch_draw" => (data' = data \/ data' = <<>> \/ pc = "weight")
       /\ pc' = "done" => MaskSum(keep') >= n_samples
       /\ pc = "done" => total_samples' =
                            [i \in DOMAIN total_samples |-> drop_prob(total_samples[i])]
       /\ pc \notin {"returned", "raised"}]_vars

\* The batch of a second iteration, drawn on top of a pool carried over.
C14_Witness ==
    /\ pc = "weight"
    /\ total_samples # <<>>
    /\ max_prob # NotCalled
    /\ Len(data) = n_samples * OverSample

\* model.prob(row) * mass_1 * 1 for every model and every row a batch can hold.
DensityTimesMass ==
    [m \in ModelInputs |->
        [row \in CandidateRows |->
            RMul(RMul(model_prob(m, row), row.mass_1), One)]]

\* The rows of a frame, as a set.
RowSet(rows) == {rows[i] : i \in DOMAIN rows}

\* C15: the weight stored with a row is density * mass_1 * detection factor,
\* the factor being 1; it is computed when the row's batch is weighted, and a
\* row of the pool keeps the weight it was stored with: an acceptance step only
\* selects rows, and no other step touches the pool before the return.
C15_WeightStoredOnce ==
    [][/\ pc' = "accept_test" =>
             \A i \in DOMAIN data' :
                data'[i].prob = DensityTimesMass[model][drop_prob(data'[i])]
       /\ AcceptStep =>
             /\ RowSet(total_samples') \subseteq RowSet(total_samples \o data)
             /\ \A i \in DOMAIN total_samples' :
                   total_samples'[i].prob =
                      DensityTimesMass[model][drop_prob(total_samples'[i])]
       /\ pc \in {"continue", "batch_draw", "weight"} =>
             total_samples' = total_samples]_vars

\* A pool that goes on into a third iteration with rows of an earlier batch.
C15_Witness ==
    /\ pc = "continue"
    /\ Len(total_samples) > n_per_iteration
    /\ \E i \in DOMAIN total_samples : RGt(total_samples[i].prob, Zero)

(* Further claims about the mass densities. *)

\* (mass_2 / mass_1) ** beta of the event, for a given exponent.
RatioPower(beta) == RPow(RDiv(dataset.mass_2, dataset.mass_1), beta)

\* C16: matter_matters_pairing takes the exponent beta_pair_1 when
\* mass_2 < mbreak and beta_pair_2 otherwise, mass_2 = mbreak included; for
\* mass_1 >= mass_2 outside the masked region it returns
\* 2 * p(mass_1) * p(mass_2) * (mass_2 / mass_1) ** beta.
C16_PairingExponent ==
    (PairingCalled /\ RGe(dataset.mass_1, dataset.mass_2) /\ ~InMaskedRegion) =>
        /\ RLt(dataset.mass_2, hyper.mbreak) =>
              prob_pairing = RMul(ProductForm, RatioPower(hyper.beta_pair_1))
        /\ RGe(dataset.mass_2, hyper.mbreak) =>
              prob_pairing = RMul(ProductForm, RatioPower(hyper.beta_pair_2))

\* An event with mass_2 on the break, where the two exponents give different
\* non-zero densities.
C16_Witness ==
    /\ PairingCalled
    /\ dataset.mass_2 = hyper.mbreak
    /\ RGt(dataset.mass_1, dataset.mass_2)
    /\ ~InMaskedRegion
    /\ prob_pairing # Zero
    /\ RatioPower(hyper.beta_pair_1) # RatioPower(hyper.beta_pair_2)

\* condlist = [mass < NSmax, (mass >= NSmax) & (mass < BHmin), mass >= BHmin]
condlist(mass, h) ==
    <<RLt(mass, h.NSmax),
      RGe(mass, h.NSmax) /\ RLt(mass, h.BHmin),
      RGe(mass, h.BHmin)>>

\* The masses of the event.
EventMasses == {dataset.mass_1, dataset.mass_2}

JointMassModel == model \in {"independent", "pairing"}

\* The event of a row lies in the region without injections.
RowMasked(row) == RGt(row.mass_1, R(60)) /\ RLt(row.mass_2, R(3))

\* C18: every row the loop is left with has a weight above the floor
\* max_prob / n_per_iteration, and the floor is above 0; with either joint mass
\* density no returned row has mass_1 < mass_2 and none lies in the region
\* mass_1 > 60, mass_2 < 3.
C18_ReturnedRowsPositiveWeight ==
    /\ pc = "done" =>
          /\ RGt(Floor(max_prob), Zero)
          /\ \A i \in DOMAIN total_samples :
                /\ RGt(total_samples[i].prob, Floor(max_prob))
                /\ RGt(total_samples[i].prob, Zero)
    /\ (pc \in {"done", "returned"} /\ JointMassModel) =>
          \A i \in DOMAIN total_samples :
             /\ RGe(total_samples[i].mass_1, total_samples[i].mass_2)
             /\ ~RowMasked(total_samples[i])

\* The loop left under a joint mass density after a batch that held a row of
\* the masked region.
C18_Witness ==
    /\ pc = "done"
    /\ JointMassModel
    /\ total_samples # <<>>
    /\ \E i \in DOMAIN data : RowMasked(data[i])

\* The position in a mask of its k-th passing row.
kth(mask, k) == CHOOSE i \in DOMAIN mask : mask[i] /\ rank(mask, i) = k

\* C19: the pool holds the rows of earlier batches before those of the new
\* batch, each in batch order; when the loop is left, the k-th returned row is
\* the k-th passing row of the pool in that order, for k = 1..n_samples,
\* whatever the weights and thresholds of the passing rows.
C19_FirstPassingInPoolOrder ==
    [][AcceptStep =>
          \A pool \in {PrunedPool} :
             /\ pool = StrictlyAboveFloor(total_samples, max_prob')
                          \o StrictlyAboveFloor(data, max_prob')
             /\ pc' = "done" =>
                   /\ DOMAIN total_samples' = 1..n_samples
                   /\ \A k \in 1..n_samples :
                         total_samples'[k] = pool[kth(keep', k)]]_vars

\* More rows passed than were asked for, and a row of the last batch heavier
\* than every returned row was left out.
C19_Witness ==
    /\ pc = "done"
    /\ MaskSum(keep) > n_samples
    /\ \E i \in DOMAIN data :
          \A j \in DOMAIN total_samples : RGt(data[i].prob, total_samples[j].prob)

(***************************************************************************)
(* population_driver.py: sample_max_post, the chunked sampling             *)
(*                                                                         *)
(* draw_true_values is called with vt_model=None and a positive n_samples: *)
(* it returns a frame of n_samples rows, or does not return.  A frame is   *)
(* modelled by its number of rows.  The files written and the calls of     *)
(* draw_true_values are recorded in log.  Locals not yet bound are 0.      *)
(***************************************************************************)
MaxEvents == 5
MaxChunk == 3

\* Faulty variant: the quotient rounded down.
floor_quotient(a, b) == a \div b

\* int(np.ceil(a / b)) for b > 0
ceil_quotient(a, b) == -((-a) \div b)

\* min(a, b)
min(a, b) == IF a < b THEN a ELSE b

RequestedInputs == -1..MaxEvents
ChunkSizeInputs == -1..MaxChunk

DriverInit ==
    /\ requested \in RequestedInputs
    /\ chunk_size \in ChunkSizeInputs
    /\ step = "validate"
    /\ n_chunks = 0
    /\ counter = 0
    /\ current_chunk = 0
    /\ events_chunk = 0
    /\ dfs = <<>>
    /\ log = <<>>

\* Lines 90-93: the two argument checks.
DriverValidate ==
    /\ step = "validate"
    /\ step' = IF requested <= 0 \/ chunk_size <= 0 THEN "raised" ELSE "plan"
    /\ UNCHANGED <<requested, chunk_size, n_chunks, counter, current_chunk,
                   events_chunk, dfs, log, samplerVars, massVars, mapVars>>

\* Lines 95-146: the output paths, the MAP sample and the model (none of which
\* the loop writes), then dfs = [] and n_chunks.
Plan ==
    /\ step = "plan"
    /\ dfs' = <<>>
    /\ n_chunks' = ceil_quotient(requested, chunk_size)
    /\ counter' = 0
    /\ step' = "for"
    /\ UNCHANGED <<requested, chunk_size, current_chunk, events_chunk, log,
                   samplerVars, massVars, mapVars>>

\* Lines 149-152: the next value of counter in range(n_chunks), current_chunk,
\* and the early break.
ForNext ==
    /\ step = "for"
    /\ IF counter < n_chunks
       THEN /\ current_chunk' = min(chunk_size, requested - counter * chunk_size)
            /\ IF current_chunk' <= 0
               THEN step' = "concat" /\ log' = Append(log, <<"break", counter + 1>>)
               ELSE step' = "draw" /\ log' = log
       ELSE /\ step' = "concat"
            /\ UNCHANGED <<current_chunk, log>>
    /\ UNCHANGED <<requested, chunk_size, n_chunks, counter, events_chunk, dfs,
                   samplerVars, massVars, mapVars>>

\* Lines 155-157: draw_true_values(model=model, vt_model=None,
\* n_samples=current_chunk) is called.
DrawCall ==
    /\ step = "draw"
    /\ log' = Append(log, <<"call", counter + 1, current_chunk>>)
    /\ step' = "sampling"
    /\ UNCHANGED <<requested, chunk_size, n_chunks, counter, current_chunk,
                   events_chunk, dfs, samplerVars, massVars, mapVars>>

\* The call returns a frame of current_chunk rows.
DrawReturn ==
    /\ step = "sampling"
    /\ events_chunk' = current_chunk
    /\ log' = Append(log, <<"return", counter + 1, current_chunk>>)
    /\ step' = "to_json"
    /\ UNCHANGED <<requested, chunk_size, n_chunks, counter, current_chunk, dfs,
                   samplerVars, massVars, mapVars>>

\* Lines 161-163: the chunk written to {events_prefix}_{counter + 1}.json.
ToJson ==
    /\ step = "to_json"
    /\ log' = Append(log, <<"json", counter + 1, events_chunk>>)
    /\ step' = "append"
    /\ UNCHANGED <<requested, chunk_size, n_chunks, counter, current_chunk,
                   events_chunk, dfs, samplerVars, massVars, mapVars>>

\* Line 166: dfs.append(events_chunk); the loop goes to its next value.
AppendChunk ==
    /\ step = "append"
    /\ dfs' = Append(dfs, events_chunk)
    /\ counter' = counter + 1
    /\ step' = "for"
    /\ UNCHANGED <<requested, chunk_size, n_chunks, current_chunk, events_chunk,
                   log, samplerVars, massVars, mapVars>>

\* The number of rows of pd.concat(frames).
RECURSIVE concat_rows(_)
concat_rows(frames) ==
    IF frames = <<>> THEN 0 ELSE Head(frames) + concat_rows(Tail(frames))

\* Lines 170-186: the chunks concatenated and written, the paths returned.
\* pd.concat of an empty list raises ValueError.
ConcatAndSave ==
    /\ step = "concat"
    /\ IF dfs = <<>>
       THEN step' = "raised" /\ log' = log
       ELSE /\ step' = "returned"
            /\ log' = Append(log, <<"json_all", Len(dfs), concat_rows(dfs)>>)
    /\ UNCHANGED <<requested, chunk_size, n_chunks, counter, current_chunk,
                   events_chunk, dfs, samplerVars, massVars, mapVars>>

DriverNext ==
    \/ DriverValidate \/ Plan \/ ForNext \/ DrawCall \/ DrawReturn
    \/ ToJson \/ AppendChunk \/ ConcatAndSave

InitDriver == DriverInit /\ SamplerIdle /\ MassIdle /\ MapIdle

SpecDriver == InitDriver /\ [][DriverNext]_vars

(***************************************************************************)
(* Claim about sample_max_post.                                            *)
(***************************************************************************)
ValidDriverArguments == requested > 0 /\ chunk_size > 0

\* The least number of chunks of at most chunk_size events that hold
\* requested events.
ChunksNeeded ==
    CHOOSE k \in 1..requested :
        (k - 1) * chunk_size < requested /\ requested <= k * chunk_size

\* The size of chunk i: chunk_size, and for the last chunk what is left.
SizeOfChunk(i) ==
    IF i < ChunksNeeded THEN chunk_size
    ELSE requested - (ChunksNeeded - 1) * chunk_size

\* Per chunk, in order: the call of draw_true_values, its return, the chunk's
\* JSON file; after the last chunk the file of all events.
SequentialLog ==
    [p \in 1..(3 * ChunksNeeded) |->
        <<<<"call", "return", "json">>[((p - 1) % 3) + 1],
          ((p - 1) \div 3) + 1,
          SizeOfChunk(((p - 1) \div 3) + 1)>>]
    \o <<<<"json_all", ChunksNeeded, requested>>>>

\* C20: for n_samples > 0 and chunk_size > 0, sample_max_post makes
\* ceil(n_samples / chunk_size) calls of draw_true_values, one per chunk and
\* one after the other; every chunk but the last has chunk_size events, each
\* has between 1 and chunk_size, and together they have n_samples; the JSON
\* file of a chunk is written after the chunk's call has returned and before
\* the next call; the early break is never taken.
C20_ChunkedSequentialRuns ==
    ValidDriverArguments =>
        /\ step # "raised"
        /\ step \notin {"validate", "plan"} => n_chunks = ChunksNeeded
        /\ Len(log) <= Len(SequentialLog)
        /\ \A p \in DOMAIN log : log[p] = SequentialLog[p]
        /\ Len(dfs) <= ChunksNeeded
        /\ \A i \in DOMAIN dfs :
              /\ dfs[i] >= 1
              /\ dfs[i] <= chunk_size
              /\ i < ChunksNeeded => dfs[i] = chunk_size
        /\ step = "returned" =>
              /\ log = SequentialLog
              /\ Len(dfs) = ChunksNeeded
              /\ concat_rows(dfs) = requested

\* A completed run of three chunks, the last one smaller than chunk_size.
C20_Witness ==
    /\ step = "returned"
    /\ ValidDriverArguments
    /\ Len(dfs) >= 3
    /\ dfs[Len(dfs)] < chunk_size
====
